---------------------------- MODULE Spec2Model ----------------------------
(***************************************************************************)
(* A model of streamlit_app.py, the mood-sensitive news chatbot.           *)
(*                                                                         *)
(* Two specifications are given over one set of variables:                 *)
(*   AdapterSpec  get_news_articles applied once to a provider response    *)
(*                drawn from a bounded set (the retrieval adapter as a     *)
(*                function of the response it receives);                   *)
(*   Spec         the Streamlit session: script runs, the form, the        *)
(*                agent.run loop with its tool calls, and the memory.      *)
(*                                                                         *)
(* Text is modelled as a sequence of string tokens; \o is concatenation.   *)
(* An f-string or a "+" becomes the concatenation of its literal pieces    *)
(* and its interpolated values, str.join becomes Join.                     *)
(***************************************************************************)
EXTENDS Integers, Sequences, FiniteSets, TLC

VARIABLES
    SERP_API_KEY,    \* line 12: os.environ.get("SERP_API_KEY"), "None" when unset
    OPENAI_API_KEY,  \* line 13: os.environ.get("OPENAI_API_KEY"), "None" when unset
    pc,              \* where the running script (or the adapter call) stands
    messages,        \* memory.chat_memory.messages
    user_input,      \* the utterance agent.run is working on
    iterations,      \* the agent executor's iteration counter of this turn
    retrievals,      \* calls of get_news_articles made in this turn
    parse_errors,    \* reasoning outputs of this turn that could not be parsed
    turns,           \* turns completed since the session began
    params,          \* the params of the last provider request, NoParams before any
    query,           \* AdapterSpec: the argument of get_news_articles
    response,        \* AdapterSpec: what requests.get meets
    result           \* AdapterSpec: how the call of get_news_articles ended

vars == <<SERP_API_KEY, OPENAI_API_KEY, pc, messages, user_input, iterations,
          retrievals, parse_errors, turns, params, query, response, result>>

---------------------------------------------------------------------------
(* Bounds of the model.                                                    *)

\* The longest "news_results" / "top_stories" array the provider returns.
MaxLen == 4

\* Turns completed in one session before the model stops counting.
MaxTurns == 3

---------------------------------------------------------------------------
(* Text helpers.                                                           *)

\* sep.join(parts) for a sequence of texts.
RECURSIVE Join(_, _)
Join(parts, sep) ==
    IF parts = <<>> THEN <<>>
    ELSE IF Len(parts) = 1 THEN parts[1]
    ELSE parts[1] \o sep \o Join(Tail(parts), sep)

DigitChars == <<"0", "1", "2", "3", "4", "5", "6", "7", "8", "9">>

\* str(n) for a non-negative int, as the f-string of line 50 renders it.
RECURSIVE IntToStr(_)
IntToStr(n) ==
    IF n < 10 THEN <<DigitChars[n + 1]>>
    ELSE IntToStr(n \div 10) \o <<DigitChars[(n % 10) + 1]>>

\* dict.get(key, default)
Get(d, key, default) == IF key \in DOMAIN d THEN d[key] ELSE default

---------------------------------------------------------------------------
(* Provider responses.                                                     *)

\* The status code line 26 compares with.
HTTP_OK == 200

\* The slice [:3] of lines 31 and 40.
TakeLimit == 3

\* Entries a provider array may hold: JSON objects with any of the fields
\* title, snippet, link, source, date.
FullArticle ==
    [title |-> "Comedy club reopens", snippet |-> "Crowds return",
     link |-> "https://n.example/1"]

ArticlePool ==
    { [f \in {} |-> ""],
      FullArticle,
      [title |-> "Markets rally", link |-> "https://n.example/2",
       source |-> "Wire", date |-> "2 hours ago"],
      [snippet |-> "Chip unveiled", source |-> "Gazette"],
      [link |-> "https://n.example/5", date |-> "3 days ago"] }

Arrays(n) == UNION { [1..k -> ArticlePool] : k \in 0..n }

\* What the array that is not being varied holds: nothing, or one entry.
ShortArrays == { <<>>, <<FullArticle>> }

EmptyBody == [k \in {} |-> <<>>]

OneKeyBodies(key, arrays) == { [k \in {key} |-> a] : a \in arrays }

TwoKeyBodies(newsArrays, topArrays) ==
    { [k \in {"news_results", "top_stories"} |->
          IF k = "news_results" THEN p[1] ELSE p[2]] :
      p \in newsArrays \X topArrays }

\* JSON objects with "news_results" and "top_stories" each absent or an array
\* of at most n entries; when both are present one of them is
\* among ShortArrays.
Bodies(n) ==
    {EmptyBody}
        \cup OneKeyBodies("news_results", Arrays(n))
        \cup OneKeyBodies("top_stories", Arrays(n))
        \cup TwoKeyBodies(Arrays(n), ShortArrays)
        \cup TwoKeyBodies(ShortArrays, Arrays(n))

StatusCodes == {HTTP_OK, 204, 301, 404, 500}

\* What requests.get can meet: no response at all (it raises), or a response
\* with a status code and a body that is a JSON object or is not JSON.
Responses(n) ==
    { [kind |-> "neterror", status_code |-> 0, is_json |-> FALSE, body |-> EmptyBody] }
        \cup { [kind |-> "http", status_code |-> c, is_json |-> FALSE, body |-> EmptyBody] :
               c \in StatusCodes }
        \cup { [kind |-> "http", status_code |-> HTTP_OK, is_json |-> TRUE, body |-> b] :
               b \in Bodies(n) }
        \cup { [kind |-> "http", status_code |-> c, is_json |-> TRUE, body |-> b] :
               c \in StatusCodes \ {HTTP_OK}, b \in Bodies(0) }

---------------------------------------------------------------------------
(* get_news_articles, lines 15-50.                                         *)

\* json.dumps(result_json, indent=2) of line 48.
DumpFields == <<"title", "snippet", "link", "source", "date">>

DumpArticle(a) ==
    LET present == SelectSeq(DumpFields, LAMBDA f : f \in DOMAIN a)
    IN  <<"{">>
            \o Join([i \in 1..Len(present) |->
                        <<"\"", present[i], "\": \"", a[present[i]], "\"">>], <<",\n">>)
            \o <<"}">>

DumpArray(arr) ==
    <<"[">> \o Join([i \in 1..Len(arr) |-> DumpArticle(arr[i])], <<",\n">>) \o <<"]">>

DumpKeys == <<"news_results", "top_stories">>

JsonDumps(body) ==
    LET present == SelectSeq(DumpKeys, LAMBDA k : k \in DOMAIN body)
    IN  <<"{">>
            \o Join([i \in 1..Len(present) |->
                        <<"\"", present[i], "\": ">> \o DumpArray(body[present[i]])],
                    <<",\n">>)
            \o <<"}">>

\* lines 16-24
RequestParams(q) ==
    [api_key |-> SERP_API_KEY, q |-> q, gl |-> "us", hl |-> "en",
     google_domain |-> "google.com"]

\* A slice that forgets the limit.
Take_NoLimit(arr) == arr

\* x[:3]
Take(arr) == SubSeq(arr, 1, IF Len(arr) < TakeLimit THEN Len(arr) ELSE TakeLimit)

\* lines 33-36: one "news_results" entry as a block
NewsBlock(article) ==
    LET title   == Get(article, "title", "No Title")
        snippet == Get(article, "snippet", "No Summary")
        link    == Get(article, "link", "No Link")
    IN  <<"Title: ", title, "\n", "Summary: ", snippet, "\n", "Link: ", link>>

\* A snippet that is always synthesized, whether or not the entry has one.
TopStorySnippet_AlwaysSynthesized(article) ==
    <<"Source: ", Get(article, "source", "Unknown"),
      ", Date: ", Get(article, "date", "Unknown")>>

\* line 43: the snippet of a "top_stories" entry
TopStorySnippet(article) ==
    IF "snippet" \in DOMAIN article
    THEN <<article["snippet"]>>
    ELSE <<"Source: ", Get(article, "source", "Unknown"),
           ", Date: ", Get(article, "date", "Unknown")>>

\* lines 42-45: one "top_stories" entry as a block
TopStoryBlock(article) ==
    LET title   == Get(article, "title", "No Title")
        snippet == TopStorySnippet(article)
        link    == Get(article, "link", "No Link")
    IN  <<"Title: ", title, "\n", "Summary: ">> \o snippet \o <<"\n", "Link: ", link>>

\* lines 31-37
NewsText(result_json) ==
    LET articles  == Take(result_json["news_results"])
        summaries == [i \in 1..Len(articles) |-> NewsBlock(articles[i])]
    IN  Join(summaries, <<"\n\n">>)

\* lines 40-46
TopStoriesText(result_json) ==
    LET articles  == Take(result_json["top_stories"])
        summaries == [i \in 1..Len(articles) |-> TopStoryBlock(articles[i])]
    IN  Join(summaries, <<"\n\n">>)

\* line 48
NoResultsText(result_json) ==
    <<"No news results found.", " Raw response:\n">> \o JsonDumps(result_json)

\* line 50
ErrorText(status_code) ==
    <<"Error: Unable to fetch data from SERP API, status code: ">> \o IntToStr(status_code)

\* A test of the key alone, without the truth test of the array.
HasEntries_KeyOnly(result_json, key) == key \in DOMAIN result_json

\* `key in result_json and result_json[key]` of lines 30 and 39
HasEntries(result_json, key) ==
    key \in DOMAIN result_json /\ result_json[key] # <<>>

\* lines 27-48: the branch taken on status code 200, once the body is parsed
FormatBody(result_json) ==
    IF HasEntries(result_json, "news_results") THEN NewsText(result_json)
    ELSE IF HasEntries(result_json, "top_stories") THEN TopStoriesText(result_json)
    ELSE NoResultsText(result_json)

\* A test that takes every 2xx status for success.
IsOk_Any2xx(status_code) == status_code >= 200 /\ status_code < 300

\* line 26
IsOk(status_code) == status_code = HTTP_OK

Returned(text, parsed) == [raised |-> FALSE, text |-> text, parsed |-> parsed]
Raised(parsed) == [raised |-> TRUE, text |-> <<>>, parsed |-> parsed]

\* How a call ends when requests.get meets resp. Nothing in lines 15-50
\* catches an exception: a failing requests.get (line 25) or response.json()
\* (line 27) ends the call by raising.
get_news_articles(q, resp) ==
    IF resp.kind = "neterror" THEN Raised(FALSE)
    ELSE IF IsOk(resp.status_code)
         THEN IF resp.is_json THEN Returned(FormatBody(resp.body), TRUE)
              ELSE Raised(TRUE)
         ELSE Returned(ErrorText(resp.status_code), FALSE)

NoParams == [api_key |-> "", q |-> <<>>, gl |-> "", hl |-> "", google_domain |-> ""]
NoResponse == [kind |-> "none", status_code |-> 0, is_json |-> FALSE, body |-> EmptyBody]
NoResult == [raised |-> FALSE, text |-> <<"(not called)">>, parsed |-> FALSE]

---------------------------------------------------------------------------
(* The news categories and the queries the reasoning step may pass.        *)

Moods == {"Happy", "Sad", "Stressed", "Excited", "Neutral"}

\* line 67
MoodCategory ==
    [m \in Moods |->
        CASE m = "Happy"    -> "Comedy"
          [] m = "Sad"      -> "Politics"
          [] m = "Stressed" -> "Business"
          [] m = "Excited"  -> "Sports"
          [] m = "Neutral"  -> "Technology"]

Lower(category) ==
    CASE category = "Comedy"     -> "comedy"
      [] category = "Politics"   -> "politics"
      [] category = "Business"   -> "business"
      [] category = "Sports"     -> "sports"
      [] category = "Technology" -> "technology"

\* Tool inputs the reasoning step may produce: the five queries of the
\* protocol of lines 66-68 and two that are not among them.
Queries ==
    { <<"latest ", Lower(MoodCategory[m]), " news">> : m \in Moods }
        \cup { <<"funny news today">>, <<"latest ", "Comedy", " news">> }

---------------------------------------------------------------------------
(* AdapterSpec: one call of get_news_articles.                             *)

InitAdapter ==
    /\ SERP_API_KEY = "serp-key"
    /\ OPENAI_API_KEY = "openai-key"
    /\ pc = "adapter_call"
    /\ messages = <<>>
    /\ user_input = ""
    /\ iterations = 0
    /\ retrievals = 0
    /\ parse_errors = 0
    /\ turns = 0
    /\ params = NoParams
    /\ query = <<"latest ", "politics", " news">>
    /\ response \in Responses(MaxLen)
    /\ result = NoResult

CallAdapter ==
    /\ pc = "adapter_call"
    /\ params' = RequestParams(query)
    /\ result' = get_news_articles(query, response)
    /\ pc' = IF result'.raised THEN "adapter_raised" ELSE "adapter_returned"
    /\ UNCHANGED <<SERP_API_KEY, OPENAI_API_KEY, messages, user_input, iterations,
                   retrievals, parse_errors, turns, query, response>>

NextAdapter == CallAdapter

AdapterSpec == InitAdapter /\ [][NextAdapter]_vars

---------------------------------------------------------------------------
(* Spec: the Streamlit session.                                            *)
(*                                                                         *)
(* Streamlit executes the script from its first line to its last once when *)
(* the page is opened and once more for every interaction with a widget.   *)
(* Lines 12-89 are module-level statements of that script, so every run    *)
(* reads the environment, builds llm, memory and agent anew, and then      *)
(* calls main() (lines 113-114).                                           *)
(*                                                                         *)
(* agent.run (line 102) is the executor initialize_agent builds with its   *)
(* defaults and handle_parsing_errors=True: while fewer than the limit of  *)
(* iterations have passed it asks the reasoning step for an output; a      *)
(* final answer ends the loop, a tool action runs the tool, an output that *)
(* cannot be parsed becomes an observation, and each of the latter two     *)
(* counts one iteration. At the limit the output is a fixed text. The      *)
(* input and the output are then saved to the memory. An exception of the  *)
(* tool leaves agent.run, and nothing is saved.                            *)

\* The executor's default limit of iterations (line 82 passes none).
MaxIterations == 15

\* lines 63-70, held as one text
system_message == "You are a friendly, mood-sensitive news assistant. ..."

Message(type, content) == [type |-> type, content |-> content]

\* What the user may type into the form of line 97.
Utterances == {"I'm feeling great today!", "Work is overwhelming"}

\* Final answers the reasoning step may compose.
Replies == {"How has your day been so far?", "Here are three stories for you."}

StoppedReply == "Agent stopped due to iteration limit or time limit."

\* What the provider may answer to a request made during a turn.
SessionResponses ==
    { [kind |-> "neterror", status_code |-> 0, is_json |-> FALSE, body |-> EmptyBody],
      [kind |-> "http", status_code |-> HTTP_OK, is_json |-> FALSE, body |-> EmptyBody],
      [kind |-> "http", status_code |-> HTTP_OK, is_json |-> TRUE, body |-> EmptyBody],
      [kind |-> "http", status_code |-> HTTP_OK, is_json |-> TRUE,
       body |-> [k \in {"news_results"} |-> <<FullArticle>>]],
      [kind |-> "http", status_code |-> 500, is_json |-> FALSE, body |-> EmptyBody] }

Init ==
    /\ SERP_API_KEY \in {"None", "serp-key"}
    /\ OPENAI_API_KEY \in {"None", "openai-key"}
    /\ pc = "not_started"
    /\ messages = <<>>
    /\ user_input = ""
    /\ iterations = 0
    /\ retrievals = 0
    /\ parse_errors = 0
    /\ turns = 0
    /\ params = NoParams
    /\ query = <<>>
    /\ response = NoResponse
    /\ result = NoResult

\* A script run can begin when none is under way.
BetweenRuns == pc \in {"not_started", "shown", "config_error", "turn_error"}

\* The form of lines 96-98 was rendered by the run before.
FormRendered == pc \in {"shown", "turn_error"}

\* line 73: ChatOpenAI(...) finds no key, in its argument or the environment
LlmConstructs == OPENAI_API_KEY # "None"

\* lines 76-79: a new memory holding the system message
SeededMemory == <<Message("system", system_message)>>

\* memory.save_context at the end of agent.run: the input, then the output
SaveContext(log, input, output) ==
    log \o <<Message("human", input), Message("ai", output)>>

\* A loop condition that lets one iteration too many pass.
ShouldContinue_OffByOne(n) == n <= MaxIterations

\* the executor's loop condition
ShouldContinue(n) == n < MaxIterations

\* A run of the script that stops at line 73.
ScriptRunFails ==
    /\ BetweenRuns
    /\ ~LlmConstructs
    /\ pc' = "config_error"
    /\ messages' = <<>>
    /\ user_input' = ""
    /\ iterations' = 0 /\ retrievals' = 0 /\ parse_errors' = 0
    /\ UNCHANGED <<SERP_API_KEY, OPENAI_API_KEY, turns, params, query, response, result>>

\* A run of the script in which line 100 is false: the page was opened or
\* reloaded, or the form was sent empty. Lines 105-108 show the memory.
ScriptRunShows ==
    /\ BetweenRuns
    /\ LlmConstructs
    /\ \E submitted \in BOOLEAN :
           /\ submitted => FormRendered
           /\ pc' = "shown"
    /\ messages' = SeededMemory
    /\ user_input' = ""
    /\ iterations' = 0 /\ retrievals' = 0 /\ parse_errors' = 0
    /\ UNCHANGED <<SERP_API_KEY, OPENAI_API_KEY, turns, params, query, response, result>>

\* A run of the script in which line 100 is true: agent.run begins.
ScriptRunTurn ==
    /\ BetweenRuns
    /\ FormRendered
    /\ LlmConstructs
    /\ turns < MaxTurns
    /\ \E text \in Utterances :
           user_input' = text
    /\ pc' = "agent"
    /\ messages' = SeededMemory
    /\ iterations' = 0 /\ retrievals' = 0 /\ parse_errors' = 0
    /\ UNCHANGED <<SERP_API_KEY, OPENAI_API_KEY, turns, params, query, response, result>>

\* The reasoning step gives a final answer: agent.run saves and returns,
\* and lines 105-108 show the memory.
ReasonFinish ==
    /\ pc = "agent"
    /\ ShouldContinue(iterations)
    /\ \E reply \in Replies :
           messages' = SaveContext(messages, user_input, reply)
    /\ pc' = "shown"
    /\ turns' = turns + 1
    /\ UNCHANGED <<SERP_API_KEY, OPENAI_API_KEY, user_input, iterations, retrievals,
                   parse_errors, params, query, response, result>>

\* The reasoning step asks for SERPNewsAPI with some input: the tool runs
\* get_news_articles on it (lines 53-55).
ReasonCallsTool ==
    /\ pc = "agent"
    /\ ShouldContinue(iterations)
    /\ \E q \in Queries, resp \in SessionResponses :
           LET outcome == get_news_articles(q, resp)
           IN  /\ params' = RequestParams(q)
               /\ retrievals' = retrievals + 1
               /\ IF outcome.raised
                  THEN pc' = "turn_error" /\ iterations' = iterations
                  ELSE pc' = "agent" /\ iterations' = iterations + 1
    /\ UNCHANGED <<SERP_API_KEY, OPENAI_API_KEY, messages, user_input, parse_errors,
                   turns, query, response, result>>

\* The reasoning step names a tool that is not among tools=[serp_news_tool].
ReasonCallsUnknownTool ==
    /\ pc = "agent"
    /\ ShouldContinue(iterations)
    /\ iterations' = iterations + 1
    /\ UNCHANGED <<SERP_API_KEY, OPENAI_API_KEY, pc, messages, user_input, retrievals,
                   parse_errors, turns, params, query, response, result>>

\* The reasoning step's output cannot be parsed (handle_parsing_errors=True).
ReasonUnparseable ==
    /\ pc = "agent"
    /\ ShouldContinue(iterations)
    /\ iterations' = iterations + 1
    /\ parse_errors' = parse_errors + 1
    /\ UNCHANGED <<SERP_API_KEY, OPENAI_API_KEY, pc, messages, user_input, retrievals,
                   turns, params, query, response, result>>

\* The limit of iterations is reached: the fixed text is the output.
IterationLimit ==
    /\ pc = "agent"
    /\ ~ShouldContinue(iterations)
    /\ messages' = SaveContext(messages, user_input, StoppedReply)
    /\ pc' = "shown"
    /\ turns' = turns + 1
    /\ UNCHANGED <<SERP_API_KEY, OPENAI_API_KEY, user_input, iterations, retrievals,
                   parse_errors, params, query, response, result>>

Next ==
    \/ ScriptRunFails
    \/ ScriptRunShows
    \/ ScriptRunTurn
    \/ ReasonFinish
    \/ ReasonCallsTool
    \/ ReasonCallsUnknownTool
    \/ ReasonUnparseable
    \/ IterationLimit

Spec == Init /\ [][Next]_vars

---------------------------------------------------------------------------
(* Reading a returned text back: what a consumer of the adapter's output   *)
(* sees. These are used by the properties below only.                      *)

\* text.split(sep) for a one-token separator.
RECURSIVE SplitOn(_, _)
SplitOn(text, sep) ==
    IF \A i \in 1..Len(text) : text[i] # sep THEN <<text>>
    ELSE LET at == CHOOSE i \in 1..Len(text) :
                       text[i] = sep /\ \A j \in 1..(i - 1) : text[j] # sep
         IN  <<SubSeq(text, 1, at - 1)>> \o SplitOn(SubSeq(text, at + 1, Len(text)), sep)

\* int(digits)
RECURSIVE StrToInt(_)
StrToInt(digits) ==
    IF digits = <<>> THEN 0
    ELSE 10 * StrToInt(SubSeq(digits, 1, Len(digits) - 1))
             + ((CHOOSE d \in 1..10 : DigitChars[d] = digits[Len(digits)]) - 1)

IsNumeral(digits) ==
    /\ digits # <<>>
    /\ \A i \in 1..Len(digits) : \E d \in 1..10 : DigitChars[d] = digits[i]
    /\ Len(digits) > 1 => digits[1] # "0"

\* The keys of the serialized object a text holds.
DumpedKeys(text) ==
    { text[i + 1] : i \in { j \in 1..(Len(text) - 2) :
                              text[j] = "\"" /\ text[j + 2] = "\": " /\ text[j + 1] \in
                                  {"news_results", "top_stories"} } }

BlockLabels == {"Title: ", "Summary: ", "Link: "}

AdapterDone == pc \in {"adapter_returned", "adapter_raised"}

OkJson == response.kind = "http" /\ response.status_code = 200 /\ response.is_json

NonEmptyArray(key) == key \in DOMAIN response.body /\ Len(response.body[key]) > 0

Smaller(a, b) == IF a < b THEN a ELSE b

---------------------------------------------------------------------------
(* Properties of get_news_articles, checked under AdapterSpec.             *)

\* C3: for an HTTP-200 response with a non-empty "news_results" array the
\* returned text is exactly min(3, len) blocks separated by a blank line,
\* block i made of entry i, each block the lines "Title: ", "Summary: ",
\* "Link: " in that order with "No Title" / "No Summary" / "No Link" for a
\* field the entry lacks, whether or not "top_stories" is present.
C3_NewsResultsBlocks ==
    (AdapterDone /\ OkJson /\ NonEmptyArray("news_results")) =>
        LET arr    == response.body["news_results"]
            blocks == SplitOn(result.text, "\n\n")
        IN  /\ ~result.raised
            /\ Len(blocks) = Smaller(3, Len(arr))
            /\ \A i \in 1..Len(blocks) :
                   SplitOn(blocks[i], "\n") =
                       << <<"Title: ",
                            IF "title" \in DOMAIN arr[i] THEN arr[i].title ELSE "No Title">>,
                          <<"Summary: ",
                            IF "snippet" \in DOMAIN arr[i] THEN arr[i].snippet
                            ELSE "No Summary">>,
                          <<"Link: ",
                            IF "link" \in DOMAIN arr[i] THEN arr[i].link ELSE "No Link">> >>

C3_Witness ==
    /\ pc = "adapter_returned" /\ OkJson
    /\ NonEmptyArray("news_results") /\ NonEmptyArray("top_stories")
    /\ Len(response.body["news_results"]) > 3
    /\ DOMAIN response.body["news_results"][1] = {}
    /\ "snippet" \in DOMAIN response.body["news_results"][2]

\* C4: for an HTTP-200 response whose "news_results" is absent or empty and
\* whose "top_stories" is non-empty, the blocks are made of the first
\* min(3, len) entries of "top_stories"; an entry without a snippet gets the
\* summary "Source: {source}, Date: {date}" with "Unknown" for either that is
\* missing, an entry with a snippet keeps it.
C4_TopStoriesFallback ==
    (AdapterDone /\ OkJson /\ ~NonEmptyArray("news_results")
         /\ NonEmptyArray("top_stories")) =>
        LET arr    == response.body["top_stories"]
            blocks == SplitOn(result.text, "\n\n")
        IN  /\ ~result.raised
            /\ Len(blocks) = Smaller(3, Len(arr))
            /\ \A i \in 1..Len(blocks) :
                   SplitOn(blocks[i], "\n") =
                       << <<"Title: ",
                            IF "title" \in DOMAIN arr[i] THEN arr[i].title ELSE "No Title">>,
                          IF "snippet" \in DOMAIN arr[i]
                          THEN <<"Summary: ", arr[i].snippet>>
                          ELSE <<"Summary: ", "Source: ",
                                 IF "source" \in DOMAIN arr[i] THEN arr[i].source
                                 ELSE "Unknown",
                                 ", Date: ",
                                 IF "date" \in DOMAIN arr[i] THEN arr[i].date
                                 ELSE "Unknown">>,
                          <<"Link: ",
                            IF "link" \in DOMAIN arr[i] THEN arr[i].link ELSE "No Link">> >>

C4_Witness ==
    /\ pc = "adapter_returned" /\ OkJson
    /\ "news_results" \in DOMAIN response.body /\ response.body["news_results"] = <<>>
    /\ NonEmptyArray("top_stories")
    /\ Len(response.body["top_stories"]) > 3
    /\ DOMAIN response.body["top_stories"][1] = {"link", "date"}
    /\ "snippet" \in DOMAIN response.body["top_stories"][2]

\* C5: for an HTTP-200 response with both arrays absent or empty the returned
\* text is not empty, begins with "No news results found.", goes on with the
\* serialized response, and holds no "Title: " / "Summary: " / "Link: " line.
C5_NoResultsMarker ==
    (AdapterDone /\ OkJson /\ ~NonEmptyArray("news_results")
         /\ ~NonEmptyArray("top_stories")) =>
        /\ ~result.raised
        /\ Len(result.text) > 3
        /\ result.text[1] = "No news results found."
        /\ result.text[3] = "{" /\ result.text[Len(result.text)] = "}"
        /\ DumpedKeys(result.text) = DOMAIN response.body
        /\ \A i \in 1..Len(result.text) : result.text[i] \notin BlockLabels

C5_Witness ==
    /\ pc = "adapter_returned" /\ OkJson
    /\ DOMAIN response.body = {"news_results", "top_stories"}
    /\ response.body["news_results"] = <<>>
    /\ response.body["top_stories"] = <<>>

\* C6: for a status code c other than 200 the returned text is exactly
\* "Error: Unable to fetch data from SERP API, status code: " followed by c
\* in decimal, and the response body is not parsed.
C6_ErrorText ==
    (AdapterDone /\ response.kind = "http" /\ response.status_code # 200) =>
        /\ ~result.raised
        /\ ~result.parsed
        /\ result.text # <<>>
        /\ result.text[1] = "Error: Unable to fetch data from SERP API, status code: "
        /\ IsNumeral(Tail(result.text))
        /\ StrToInt(Tail(result.text)) = response.status_code

C6_Witness ==
    /\ pc = "adapter_returned"
    /\ response.kind = "http" /\ response.status_code = 204
    /\ response.is_json /\ DOMAIN response.body = {"top_stories"}

\* C7: get_news_articles never raises: whatever its provider request meets,
\* the call ends by returning a text.
C7_NeverRaises ==
    AdapterDone => (~result.raised /\ pc = "adapter_returned")


---------------------------------------------------------------------------
(* Properties of the session, checked under Spec.                          *)

\* The mood each utterance states.
MoodOf(utterance) ==
    CASE utterance = "I'm feeling great today!" -> "Happy"
      [] utterance = "Work is overwhelming"     -> "Stressed"

\* A turn has ended, with a reply or with an exception.
TurnEnded == pc = "turn_error" \/ (pc = "shown" /\ user_input # "")

\* C1: whenever the conversation is shown, the log holds the seed message
\* and one user and one assistant message for each of the turns completed
\* so far: 1 + 2N messages after N turns.
C1_LogGrowsByTurns ==
    (pc = "shown") =>
        /\ Len(messages) = 1 + 2 * turns
        /\ messages[1].type = "system"
        /\ \A i \in 1..turns :
               messages[2 * i].type = "human" /\ messages[2 * i + 1].type = "ai"

C8_ParseErrorStillReplies ==
    (TurnEnded /\ parse_errors > 0) =>
        /\ pc = "shown"
        /\ Len(messages) > 2
        /\ messages[Len(messages)].type = "ai"
        /\ messages[Len(messages) - 1] = Message("human", user_input)

\* C9: every query that reaches get_news_articles is "latest {category} news"
\* with the lower-cased category the mapping gives for the user's mood.
C9_QueryFollowsMood ==
    (retrievals > 0 /\ user_input \in Utterances) =>
        params.q = <<"latest ", Lower(MoodCategory[MoodOf(user_input)]), " news">>

\* C10: with either key missing from the environment no turn is handled and
\* no provider request is issued.
C10_NoSessionWithoutKeys ==
    (SERP_API_KEY = "None" \/ OPENAI_API_KEY = "None") =>
        /\ pc # "agent"
        /\ turns = 0
        /\ params = NoParams

=============================================================================
